---- MODULE Spec2Model ----
(***************************************************************************)
(* Verification model of five components of cxxnet:                        *)
(*   - the instance store  (src/src/io/inst_vector.h: TensorVector,        *)
(*     InstVector),                                                        *)
(*   - the MNIST batch source (iter_mnist-inl.hpp: MNISTIterator),         *)
(*   - the parameter key encoder (updater.h: EncodeDataKey, DecodeTag),    *)
(*   - the asynchronous updater protocol (updater.h: IAsyncUpdater),       *)
(*   - the max-pooling layer (pooling_layer-inl.hpp: PoolingLayer).        *)
(* Each component has its own specification (SpecStore, SpecIter, SpecKey, *)
(* SpecUpd, SpecPool); the variables of the other components stay at their *)
(* initial values.                                                         *)
(***************************************************************************)
EXTENDS Integers, Sequences, FiniteSets, TLC

VARIABLES
  index_,   \* InstVector::index_   : sequence of unsigned
  data_,    \* InstVector::data_    : TensorVector<3> [offset_, content_, shape_]
  label_,   \* InstVector::label_   : TensorVector<1> [offset_, content_, shape_]
  acc,      \* outcome of the last operator[] / Back() call on the store
  shadow,   \* ghost: per-instance copy of what was written through each data view
  pushed,   \* ghost: the Push arguments since construction or the last Clear
  cleared,  \* ghost: Clear() has been called at least once
  pc,          \* MNISTIterator: "config" (constructed), "ready" (Init done), "crashed",
               \* "failed" (a CHECK of the loader failed)
  batch_size_, \* MNISTIterator::batch_size_ (index_t)
  shuffle_,    \* MNISTIterator::shuffle_
  inst_offset_,\* MNISTIterator::inst_offset_ (unsigned)
  loc_,        \* MNISTIterator::loc_ (index_t), Uninit until first written
  img_,        \* MNISTIterator::img_ : one entry per image, the dataset position it was read from
  labels_,     \* MNISTIterator::labels_ : one entry per label, the dataset position it was read from
  inst_,       \* MNISTIterator::inst_ : instance identities
  out_,        \* MNISTIterator::out_ : positions the batch pointers refer to, and batch_size
  ret,         \* the value the last Next() returned: "none", "true", "false"
  nth,         \* ghost: Next() calls that returned true since the last BeforeFirst(), NoEpoch before
  first,       \* ghost: the outcome of the first Next() of the first epoch
  restarted,   \* ghost: BeforeFirst() has been called after Next() returned false
  files,       \* ghost: whether the image / label file Init opened ended early
  enc,         \* the last EncodeDataKey call: its arguments and its outcome
  prev,        \* the EncodeDataKey call before it, if no DecodeTag call came between
  dec,         \* the last DecodeTag call: its argument and its outcome
  main,        \* the compute thread: "run", "wait" (blocked in UpdateWait), "aborted"
  waitk,       \* the updater whose UpdateWait() the compute thread is blocked in
  phase,       \* per updater: "idle", "bracket" (BeforeBackprop called), "issued"
  handle,      \* per updater: the epochs of the applies in flight on the apply channel
  weight,      \* per updater: the epoch of the last optimizer step applied to its weight
  uerr,        \* the call that ended in utils::Error, if any
  lpc,         \* PoolingLayer: "config", "ready", "forwarded", "backpropped",
               \* "skipped" (Backprop without prop_grad), "ConfigError", "crashed"
  param_,      \* PoolingLayer::param_ : kernel_height, kernel_width, stride, pad_y, pad_x
  in_shape_,   \* PoolingLayer::in_shape_
  arity,       \* nodes_in.size(), nodes_out.size() of the connection
  nodes_in,    \* nodes_in[0]->data  : [shape, data]
  nodes_out,   \* nodes_out[0]->data : [shape, data]
  states,      \* p_cstate->states   : sequence of [shape, data]
  fin          \* ghost: nodes_in[0]->data as the last Forward read it

storeVars == <<index_, data_, label_, acc, shadow, pushed, cleared>>

iterVars == <<pc, batch_size_, shuffle_, inst_offset_, loc_, img_, labels_, inst_, out_,
              ret, nth, first, restarted, files>>

keyVars == <<enc, prev, dec>>

updVars == <<main, waitk, phase, handle, weight, uerr>>

poolVars == <<lpc, param_, in_shape_, arity, nodes_in, nodes_out, states, fin>>

vars == <<storeVars, iterVars, keyVars, updVars, poolVars>>

\* a step of one component leaves the other components alone
StoreOnly == UNCHANGED <<iterVars, keyVars, updVars, poolVars>>
IterOnly == UNCHANGED <<storeVars, keyVars, updVars, poolVars>>
KeyOnly == UNCHANGED <<storeVars, iterVars, updVars, poolVars>>
UpdOnly == UNCHANGED <<storeVars, iterVars, keyVars, poolVars>>
PoolOnly == UNCHANGED <<storeVars, iterVars, keyVars, updVars>>

(***************************************************************************)
(* Bounds of the model.                                                    *)
(***************************************************************************)
\* at most this many instances are pushed into the store
MaxInst == 2
\* size_t is modelled SizeBits wide (arithmetic on it wraps modulo 2^SizeBits)
SizeBits == 5

\* at most this many images / labels are in the dataset files
MaxCount == 5
\* index_t and unsigned are modelled IndexBits wide (arithmetic wraps modulo 2^IndexBits)
IndexBits == 5

\* int is modelled IntBits wide (two's complement)
IntBits == 6

SizeMod == 2 ^ SizeBits
\* the largest size_t value
SizeMax == SizeMod - 1

\* shapes, indices and values the store's callers pass in
DataShapes == {<<1, 1, 1>>, <<1, 2, 1>>, <<2, 0, 1>>}
LabelShapes == {<<1>>, <<2>>}
Indices == {3}
WriteVals == {1}

Last(s) == s[Len(s)]

Min(a, b) == IF a <= b THEN a ELSE b

(***************************************************************************)
(* TensorVector<dim, DType>                                                *)
(***************************************************************************)
\* mshadow::Shape<dim>::Size(): the product of the dimensions
RECURSIVE ShapeSize(_)
ShapeSize(s) == IF s = <<>> THEN 1 ELSE Head(s) * ShapeSize(Tail(s))

\* std::vector<DType>::resize(n): keeps the first n elements, value-initialises new ones
Resize(v, n) ==
  IF n <= Len(v) THEN SubSeq(v, 1, n)
  ELSE v \o [k \in 1..(n - Len(v)) |-> 0]

\* TensorVector::Clear
TV_Clear_KeepShape(tv) ==
  [offset_ |-> <<0>>, content_ |-> <<>>, shape_ |-> tv.shape_]

TV_Clear(tv) ==
  [offset_ |-> <<0>>, content_ |-> <<>>, shape_ |-> <<>>]

\* TensorVector::TensorVector: the members are default-constructed, then Clear()
TV_New == TV_Clear([offset_ |-> <<>>, content_ |-> <<>>, shape_ |-> <<>>])

TV_Size(tv) == Len(tv.shape_)

\* TensorVector::Push
TV_Push_NoResize(tv, shape) ==
  [shape_   |-> Append(tv.shape_, shape),
   offset_  |-> Append(tv.offset_, (Last(tv.offset_) + ShapeSize(shape)) % SizeMod),
   content_ |-> tv.content_]

TV_Push_Reassign(tv, shape) ==
  LET off == Append(tv.offset_, (Last(tv.offset_) + ShapeSize(shape)) % SizeMod)
  IN [shape_   |-> Append(tv.shape_, shape),
      offset_  |-> off,
      content_ |-> [k \in 1..Last(off) |-> 0]]

TV_Push(tv, shape) ==
  LET off == Append(tv.offset_, (Last(tv.offset_) + ShapeSize(shape)) % SizeMod)
  IN [shape_   |-> Append(tv.shape_, shape),
      offset_  |-> off,
      content_ |-> Resize(tv.content_, Last(off))]

\* outcomes of an access: a view (base offset into content_), the failed CHECK, or a crash;
\* oob records that an element of a table was read outside its bounds
Outcome(kind, oob, base) == [kind |-> kind, oob |-> oob, base |-> base]

NoBase == 0 - 1

\* TensorVector::operator[] (i is a size_t): the set of outcomes the call can have.
\* Reading shape_[i] or offset_[i] outside the tables is undefined: the garbage read may
\* fail the second CHECK, pass it (a view over garbage is returned) or fault.
TV_At(tv, i) ==
  IF ~((i + 1) % SizeMod < Len(tv.offset_))
    THEN {Outcome("OutOfRange", FALSE, NoBase)}
  ELSE IF i < Len(tv.shape_)
    THEN IF ShapeSize(tv.shape_[i + 1]) = tv.offset_[i + 2] - tv.offset_[i + 1]
           THEN {Outcome("view", FALSE, tv.offset_[i + 1])}
           ELSE {Outcome("OutOfRange", FALSE, NoBase)}
  ELSE {Outcome("OutOfRange", TRUE, NoBase),
        Outcome("view", TRUE, NoBase),
        Outcome("crash", TRUE, NoBase)}

\* TensorVector::Back
TV_Back(tv) == TV_At(tv, (TV_Size(tv) - 1) % SizeMod)

\* a write of v to element k of the view operator[](i) returned:
\* ((DType*)BeginPtr(content_) + offset_[i])[k] = v
WriteView(tv, i, k, v) ==
  [tv EXCEPT !.content_[tv.offset_[i + 1] + k + 1] = v]

\* the elements the view operator[](i) covers
ViewOf(tv, i) == SubSeq(tv.content_, tv.offset_[i + 1] + 1, tv.offset_[i + 2])

(***************************************************************************)
(* InstVector                                                              *)
(***************************************************************************)
IV_Size == Len(index_)

\* InstVector::operator[]: index_[i] is read unchecked, then data_[i] and label_[i]
IV_At(i) ==
  IF i < Len(index_)
    THEN {Outcome(IF d.kind = "view" THEN l.kind ELSE d.kind,
                  d.oob \/ l.oob, d.base) :
            d \in TV_At(data_, i), l \in TV_At(label_, i)}
  ELSE {Outcome("crash", TRUE, NoBase)}
       \cup {Outcome(d.kind, TRUE, d.base) : d \in TV_At(data_, i)}

\* InstVector::Back
IV_Back == IV_At((IV_Size - 1) % SizeMod)

NoAcc == [op |-> "none", i |-> 0, kind |-> "none", oob |-> FALSE, base |-> NoBase]

Access(op, i, o) == [op |-> op, i |-> i, kind |-> o.kind, oob |-> o.oob, base |-> o.base]

\* the indices operator[] is called with
AccessArgs == (0..(MaxInst + 1)) \cup {SizeMax - 1, SizeMax}

\* the implicit InstVector constructor: an empty index_, two constructed TensorVectors
IV_New == [index_ |-> <<>>, data_ |-> TV_New, label_ |-> TV_New]

\* InstVector::Push on a store value iv
IV_Push(iv, index, dshape, lshape) ==
  [index_ |-> Append(iv.index_, index),
   data_  |-> TV_Push(iv.data_, dshape),
   label_ |-> TV_Push(iv.label_, lshape)]

\* InstVector::Clear on a store value iv
IV_Clear(iv) ==
  [index_ |-> <<>>, data_ |-> TV_Clear(iv.data_), label_ |-> TV_Clear(iv.label_)]

\* the store as one value
IV_This == [index_ |-> index_, data_ |-> data_, label_ |-> label_]

StoreInit ==
  /\ index_ = IV_New.index_
  /\ data_ = IV_New.data_
  /\ label_ = IV_New.label_
  /\ acc = NoAcc
  /\ shadow = <<>>
  /\ pushed = <<>>
  /\ cleared = FALSE

\* InstVector::Push(index, dshape, lshape)
Push ==
  /\ Len(index_) < MaxInst
  /\ \E index \in Indices, dshape \in DataShapes, lshape \in LabelShapes :
       /\ index_' = IV_Push(IV_This, index, dshape, lshape).index_
       /\ data_' = IV_Push(IV_This, index, dshape, lshape).data_
       /\ label_' = IV_Push(IV_This, index, dshape, lshape).label_
       /\ shadow' = Append(shadow, [k \in 1..ShapeSize(dshape) |-> 0])
       /\ pushed' = Append(pushed, <<index, dshape, lshape>>)
  /\ acc' = NoAcc
  /\ UNCHANGED cleared
  /\ StoreOnly

\* InstVector::Clear
Clear ==
  /\ index_' = IV_Clear(IV_This).index_
  /\ data_' = IV_Clear(IV_This).data_
  /\ label_' = IV_Clear(IV_This).label_
  /\ shadow' = <<>>
  /\ pushed' = <<>>
  /\ cleared' = TRUE
  /\ acc' = NoAcc
  /\ StoreOnly

\* a caller fills element k of the data view of instance i
Write ==
  /\ \E i \in 0..(TV_Size(data_) - 1) :
       \E k \in 0..(ShapeSize(data_.shape_[i + 1]) - 1), v \in WriteVals :
         /\ data_' = WriteView(data_, i, k, v)
         /\ shadow' = [shadow EXCEPT ![i + 1][k + 1] = v]
  /\ acc' = NoAcc
  /\ UNCHANGED <<index_, label_, pushed, cleared>>
  /\ StoreOnly

\* TensorVector::operator[](i) on the data table
DataAt ==
  /\ \E i \in AccessArgs : \E o \in TV_At(data_, i) : acc' = Access("TV_At", i, o)
  /\ UNCHANGED <<index_, data_, label_, shadow, pushed, cleared>>
  /\ StoreOnly

\* TensorVector::Back() on the data table
DataBack ==
  /\ \E o \in TV_Back(data_) : acc' = Access("TV_Back", 0, o)
  /\ UNCHANGED <<index_, data_, label_, shadow, pushed, cleared>>
  /\ StoreOnly

\* InstVector::operator[](i)
InstAt ==
  /\ \E i \in AccessArgs : \E o \in IV_At(i) : acc' = Access("IV_At", i, o)
  /\ UNCHANGED <<index_, data_, label_, shadow, pushed, cleared>>
  /\ StoreOnly

\* InstVector::Back()
InstBack ==
  /\ \E o \in IV_Back : acc' = Access("IV_Back", 0, o)
  /\ UNCHANGED <<index_, data_, label_, shadow, pushed, cleared>>
  /\ StoreOnly

StoreNext ==
  \/ Push
  \/ Clear
  \/ Write
  \/ DataAt
  \/ DataBack
  \/ InstAt
  \/ InstBack


(***************************************************************************)
(* MNISTIterator                                                           *)
(***************************************************************************)
IndexMod == 2 ^ IndexBits

\* a member that has not been written yet; a NULL / unset pointer
Uninit == 0 - 1
Null == 0 - 1
\* an element whose content is whatever memory held (never a dataset position)
Garbage == 0 - 2
\* nth before the first BeforeFirst()
NoEpoch == 0 - 1

\* values SetParam receives: (index_t)atoi(val) for batch_size, atoi(val) for
\* index_offset (stored in an unsigned) and shuffle
BatchSizes == (0..(MaxCount + 1)) \cup {IndexMod - 1}
InstOffsets == {0, IndexMod - 1}
ShuffleFlags == {0, 1}
\* image_count and labels_count of the headers of the two files read: equal, or one
\* file holding one instance more than the other
Counts == 0..MaxCount
CountPairs ==
  {c \in Counts \X Counts : c[1] - c[2] \in {0 - 1, 0, 1}}
\* values a read of the unwritten loc_ can yield
LocGarbage == {0, 1, IndexMod - 1}

\* the image sizes (rows, columns) an image file's header gives
PixelDims == {<<1, 1>>, <<1, 2>>}

\* the bytes of a well-formed image file (4 header ints, a byte per pixel) and of a
\* well-formed label file (2 header ints, a byte per label)
ImageBytes(image_count, dims) == 16 + image_count * dims[1] * dims[2]
LabelBytes(labels_count) == 8 + labels_count

\* the lengths of the label files: every truncation, and the whole file
LabelLens(labels_count) == 0..LabelBytes(labels_count)

NoFiles == [img_short |-> FALSE, label_short |-> FALSE]

\* dmlc::Stream::Read(ptr, size) at offset pos of a file of len bytes: the bytes read
StreamRead(len, pos, size) == Min(size, IF len > pos THEN len - pos ELSE 0)

\* ReadInt at offset pos: CHECK(fi->Read(buf, sizeof(buf)) == sizeof(buf)) on 4 bytes
ReadIntOk(len, pos) == StreamRead(len, pos, 4) = 4

\* the size argument of the payload reads: sizeof(ch) != 0, the bool converted to size_t
PayloadReadSize == IF 1 # 0 THEN 1 ELSE 0

\* payload reads whose result is not looked at
PayloadOk_Unchecked(len, start, nbytes) == TRUE

\* CHECK(stream->Read(&ch, sizeof(ch) != 0)) on each of the nbytes payload bytes that
\* follow the header of start bytes
PayloadOk(len, start, nbytes) ==
  \A b \in 1..nbytes :
    StreamRead(len, start + (b - 1) * PayloadReadSize, PayloadReadSize) # 0

\* no CHECK of LoadImage fails
LoadImageOk(len, image_count, dims) ==
  /\ \A k \in 0..3 : ReadIntOk(len, 4 * k)
  /\ PayloadOk(len, 16, image_count * dims[1] * dims[2])

\* no CHECK of LoadLabel fails
LoadLabelOk(len, labels_count) ==
  /\ \A k \in 0..1 : ReadIntOk(len, 4 * k)
  /\ PayloadOk(len, 8, labels_count)

\* LoadImage: img_ gets image_count entries, entry i read from dataset position i
LoadImage(image_count) == [p \in 1..image_count |-> p - 1]

\* LoadLabel: labels_[i] is the label byte of dataset position i
LoadLabel(labels_count) == [p \in 1..labels_count |-> p - 1]

\* LoadLabel: inst_.push_back((unsigned)i + inst_offset_) for every i
LoadInst_NoIndex(old, labels_count, offset) ==
  old \o [p \in 1..labels_count |-> offset]

LoadInst(old, labels_count, offset) ==
  old \o [p \in 1..labels_count |-> ((p - 1) + offset) % IndexMod]

\* utils::RandomSampler::Shuffle(std::vector&): every reordering of v is a possible result
RandomShuffle(v) ==
  {[i \in 1..Len(v) |-> v[p[i]]] :
     p \in {q \in [1..Len(v) -> 1..Len(v)] : \A a, b \in 1..Len(v) : q[a] = q[b] => a = b}}

\* Shuffle, after rnd.Shuffle(inst_) gave ins: ridx = inst_[i] - inst_offset_
Ridx(ins, i, offset) == (ins[i] - offset + IndexMod) % IndexMod

\* a Shuffle that reorders inst_ and leaves the images where they are
ShuffleImg_InPlace(img, ins, offset) == img

\* Shuffle: tmpimg has the shape of img_ and is filled for i < inst_.size() only;
\* img_[ridx] beyond the images read is memory outside the array
ShuffleImg(img, ins, offset) ==
  [i \in 1..Len(img) |->
     IF i <= Len(ins) /\ Ridx(ins, i, offset) < Len(img)
       THEN img[Ridx(ins, i, offset) + 1]
       ELSE Garbage]

\* Shuffle: tmplabel[i] = labels_[ridx]
ShuffleLabels(labels, ins, offset) ==
  [i \in 1..Len(labels) |->
     IF i <= Len(ins) /\ Ridx(ins, i, offset) < Len(labels)
       THEN labels[Ridx(ins, i, offset) + 1]
       ELSE Garbage]

\* Shuffle writes tmpimg[i] and reads img_[ridx] for every i < inst_.size(): with more
\* identities than images both leave the arrays, which is undefined behaviour
ShuffleLeavesImg(img, ins) == Len(ins) > Len(img)

\* the elements a batch pointer at position pos exposes, n of them
Slice(arr, pos, n) ==
  [k \in 1..n |-> IF pos + k <= Len(arr) THEN arr[pos + k] ELSE Garbage]

\* DataBatch out_ read through its pointers
BatchOf(o) ==
  [data  |-> Slice(img_, o.data, o.batch_size),
   label |-> Slice(labels_, o.label, o.batch_size),
   ids   |-> Slice(inst_, o.inst_index, o.batch_size)]

NoBatch == [data |-> <<>>, label |-> <<>>, ids |-> <<>>]

\* what a Next() call handed to its caller
Result(r, o) ==
  [ret |-> r, out |-> o, batch |-> IF r = "true" THEN BatchOf(o) ELSE NoBatch]

NoResult == [ret |-> "none", out |-> <<>>, batch |-> NoBatch]

\* MNISTIterator::MNISTIterator: batch_size_ and loc_ are not initialised
MNISTIterator ==
  /\ pc = "config"
  /\ batch_size_ \in BatchSizes
  /\ shuffle_ = 0
  /\ inst_offset_ = 0
  /\ loc_ = Uninit
  /\ img_ = <<>>
  /\ labels_ = <<>>
  /\ inst_ = <<>>
  /\ out_ = [data |-> Null, label |-> Null, inst_index |-> Null, batch_size |-> Uninit]
  /\ ret = "none"
  /\ nth = NoEpoch
  /\ first = NoResult
  /\ restarted = FALSE
  /\ files = NoFiles

\* MNISTIterator::SetParam, called before Init
SetParam ==
  /\ pc = "config"
  /\ \/ \E v \in BatchSizes : batch_size_' = v /\ UNCHANGED <<shuffle_, inst_offset_>>
     \/ \E v \in ShuffleFlags : shuffle_' = v /\ UNCHANGED <<batch_size_, inst_offset_>>
     \/ \E v \in InstOffsets : inst_offset_' = v /\ UNCHANGED <<batch_size_, shuffle_>>
  /\ UNCHANGED <<pc, loc_, img_, labels_, inst_, out_, ret, nth, first, restarted, files>>
  /\ IterOnly

\* MNISTIterator::Init on an image file of ilen bytes whose header gives c[1] images of
\* dims[1] rows and dims[2] columns, and a label file of llen bytes whose header gives
\* c[2] labels: LoadImage, LoadLabel, the out_ fields, Shuffle if shuffle_.  A failed
\* CHECK ends the process.
Init ==
  /\ pc = "config"
  /\ \E c \in CountPairs, dims \in PixelDims :
       \E ilen \in 0..ImageBytes(c[1], dims), llen \in LabelLens(c[2]) :
         LET image_count == c[1]
             labels_count == c[2]
             img == LoadImage(image_count)
             labels == LoadLabel(labels_count)
             ins == LoadInst(inst_, labels_count, inst_offset_)
         IN  /\ files' = [img_short |-> ilen < ImageBytes(image_count, dims),
                          label_short |-> llen < LabelBytes(labels_count)]
             /\ IF ~LoadImageOk(ilen, image_count, dims)
                     \/ ~LoadLabelOk(llen, labels_count)
                  THEN /\ pc' = "failed"
                       /\ UNCHANGED <<img_, labels_, inst_, out_>>
                  ELSE /\ out_' = [data |-> Null, label |-> Null, inst_index |-> Null,
                                   batch_size |-> batch_size_]
                       /\ IF shuffle_ = 0
                            THEN /\ img_' = img
                                 /\ labels_' = labels
                                 /\ inst_' = ins
                                 /\ pc' = "ready"
                            ELSE \E shuffled \in RandomShuffle(ins) :
                                   /\ img_' = ShuffleImg(img, shuffled, inst_offset_)
                                   /\ labels_' = ShuffleLabels(labels, shuffled, inst_offset_)
                                   /\ inst_' = shuffled
                                   /\ \/ pc' = "ready"
                                      \/ ShuffleLeavesImg(img, shuffled) /\ pc' = "crashed"
  /\ UNCHANGED <<batch_size_, shuffle_, inst_offset_, loc_, ret, nth, first, restarted>>
  /\ IterOnly

\* MNISTIterator::BeforeFirst
BeforeFirst_SkipBatch ==
  /\ pc = "ready"
  /\ loc_' = batch_size_
  /\ ret' = "none"
  /\ nth' = 0
  /\ restarted' = (restarted \/ ret = "false")
  /\ UNCHANGED <<pc, batch_size_, shuffle_, inst_offset_, img_, labels_, inst_, out_, first,
                 files>>
  /\ IterOnly

BeforeFirst ==
  /\ pc = "ready"
  /\ loc_' = 0
  /\ ret' = "none"
  /\ nth' = 0
  /\ restarted' = (restarted \/ ret = "false")
  /\ UNCHANGED <<pc, batch_size_, shuffle_, inst_offset_, img_, labels_, inst_, out_, first,
                 files>>
  /\ IterOnly

\* the condition of Next: loc_ + batch_size_ <= img_.size(0), in index_t arithmetic
HasBatch_Strict(l) == (l + batch_size_) % IndexMod < Len(img_)

HasBatch(l) == (l + batch_size_) % IndexMod <= Len(img_)

\* nth counts up to here
NthCap == MaxCount + 2

\* MNISTIterator::Next; a read of the unwritten loc_ yields any value
Next ==
  /\ pc = "ready"
  /\ \E l \in (IF loc_ = Uninit THEN LocGarbage ELSE {loc_}) :
       IF HasBatch(l)
         THEN /\ out_' = [out_ EXCEPT !.data = l, !.label = l, !.inst_index = l]
              /\ loc_' = (l + batch_size_) % IndexMod
              /\ ret' = "true"
              /\ nth' = IF nth = NoEpoch \/ nth = NthCap THEN nth ELSE nth + 1
              /\ first' = IF first = NoResult /\ nth = 0
                            THEN Result("true", out_') ELSE first
         ELSE /\ ret' = "false"
              /\ first' = IF first = NoResult /\ nth = 0
                            THEN Result("false", out_) ELSE first
              /\ UNCHANGED <<out_, loc_, nth>>
  /\ UNCHANGED <<pc, batch_size_, shuffle_, inst_offset_, img_, labels_, inst_, restarted,
                 files>>
  /\ IterOnly

IterNext ==
  \/ SetParam
  \/ Init
  \/ BeforeFirst
  \/ Next

(***************************************************************************)
(* Parameter key encoder                                                   *)
(***************************************************************************)
kDataKeyStep == 4

IntMod == 2 ^ IntBits
IntMax == 2 ^ (IntBits - 1) - 1
IntMin == 0 - 2 ^ (IntBits - 1)

\* the int a two's complement build keeps of the mathematical value v
WrapInt(v) == ((v - IntMin) % IntMod) + IntMin

\* the C++ remainder a % b for b > 0: truncated towards zero, the sign of a
CRem(a, b) == IF a >= 0 THEN a % b ELSE 0 - ((0 - a) % b)

\* the outcomes of evaluating the int expression of mathematical value v: the value,
\* or on signed overflow (undefined behaviour) the wrapped value or a trap
IntResult(v) ==
  IF IntMin <= v /\ v <= IntMax
    THEN {[status |-> "ok", key |-> v]}
    ELSE {[status |-> "ok", key |-> WrapInt(v)], [status |-> "trap", key |-> 0]}

\* EncodeDataKey(layer_index, tag): the set of outcomes
EncodeDataKey(layer_index, tag) ==
  IF tag = "bias" THEN IntResult(layer_index * kDataKeyStep + 1)
  ELSE IF tag = "wmat" THEN IntResult(layer_index * kDataKeyStep + 0)
  ELSE {[status |-> "Error", key |-> 0]}

\* DecodeTag(key); "Error" is utils::Error("invalid key")
DecodeTag(key) ==
  CASE CRem(key, kDataKeyStep) = 0 -> "wmat"
    [] CRem(key, kDataKeyStep) = 1 -> "bias"
    [] OTHER -> "Error"

\* arguments the encoder and the decoder are called with
LayerIndices == 0..IntMax
Tags == {"wmat", "bias", "other"}
Keys == IntMin..IntMax

NoEnc == [layer_index |-> 0, tag |-> "none", status |-> "none", key |-> 0]
NoDec == [key |-> 0, tag |-> "none"]

KeyInit ==
  /\ enc = NoEnc
  /\ prev = NoEnc
  /\ dec = NoDec

\* a call of EncodeDataKey
Encode ==
  /\ \E layer_index \in LayerIndices, tag \in Tags :
       \E o \in EncodeDataKey(layer_index, tag) :
         enc' = [layer_index |-> layer_index, tag |-> tag,
                 status |-> o.status, key |-> o.key]
  /\ prev' = enc
  /\ dec' = NoDec
  /\ KeyOnly

\* a call of DecodeTag
Decode ==
  /\ \E key \in Keys : dec' = [key |-> key, tag |-> DecodeTag(key)]
  /\ prev' = NoEnc
  /\ UNCHANGED enc
  /\ KeyOnly

KeyNext ==
  \/ Encode
  \/ Decode

(***************************************************************************)
(* Asynchronous updater (IAsyncUpdater)                                    *)
(* The interface declares BeforeBackprop, AfterBackprop and UpdateWait as  *)
(* pure virtual; their behaviour is taken from the documented contract:    *)
(* AfterBackprop(do_update = true) hands an apply to a channel that runs   *)
(* beside the compute thread, UpdateWait() joins it.                       *)
(***************************************************************************)
\* the updaters of the model, one per weight key
Updaters == {0, 1}
\* epoch arguments
Epochs == {0, 1}
\* gradient arguments of Update(epoch, grad), by content
Grads == {0, 1}
\* the weight before any optimizer step
Fresh == 0 - 1

NoErr == [op |-> "none", k |-> 0, outcome |-> "none"]

\* the updaters after construction
IAsyncUpdater ==
  /\ main = "run"
  /\ waitk = 0
  /\ phase = [k \in Updaters |-> "idle"]
  /\ handle = [k \in Updaters |-> <<>>]
  /\ weight = [k \in Updaters |-> Fresh]
  /\ uerr = NoErr

\* utils::Error(msg) called from operation op of updater k: the process ends
Error(op, k) ==
  /\ main' = "aborted"
  /\ uerr' = [op |-> op, k |-> k, outcome |-> "UsageError"]

\* an Update(epoch) that performs the optimizer step of a synchronous updater
Update_AppliesStep(k, epoch) ==
  /\ main = "run"
  /\ weight' = [weight EXCEPT ![k] = epoch]
  /\ UNCHANGED <<main, waitk, phase, handle, uerr>>
  /\ UpdOnly

\* IAsyncUpdater::Update(long epoch)
Update(k, epoch) ==
  /\ main = "run"
  /\ Error("Update", k)
  /\ UNCHANGED <<waitk, phase, handle, weight>>
  /\ UpdOnly

\* IAsyncUpdater::Update(long epoch, Tensor grad)
UpdateGrad(k, epoch, grad) ==
  /\ main = "run"
  /\ Error("UpdateGrad", k)
  /\ UNCHANGED <<waitk, phase, handle, weight>>
  /\ UpdOnly

\* BeforeBackprop(nodes_in, nodes_out): opens the bracket around the layer's Backprop;
\* opening it twice is a usage error
BeforeBackprop(k) ==
  /\ main = "run"
  /\ phase[k] \in {"idle", "bracket"}
  /\ IF phase[k] = "bracket"
       THEN /\ Error("BeforeBackprop", k)
            /\ UNCHANGED <<waitk, phase, handle, weight>>
       ELSE /\ phase' = [phase EXCEPT ![k] = "bracket"]
            /\ UNCHANGED <<main, waitk, handle, weight, uerr>>
  /\ UpdOnly

\* an AfterBackprop that starts an apply whatever is outstanding
AfterBackprop_NoCheck(k, do_update, epoch) ==
  /\ main = "run"
  /\ phase[k] \in {"bracket", "issued"}
  /\ do_update
  /\ phase' = [phase EXCEPT ![k] = "issued"]
  /\ handle' = [handle EXCEPT ![k] = Append(@, epoch)]
  /\ UNCHANGED <<main, waitk, weight, uerr>>
  /\ UpdOnly

\* AfterBackprop(do_update, epoch): closes the bracket; with do_update it hands the apply
\* of this epoch to the channel.  Called again before UpdateWait() it is a usage error.
AfterBackprop(k, do_update, epoch) ==
  /\ main = "run"
  /\ phase[k] \in {"bracket", "issued"}
  /\ IF phase[k] = "issued"
       THEN /\ Error("AfterBackprop", k)
            /\ UNCHANGED <<waitk, phase, handle, weight>>
       ELSE /\ phase' = [phase EXCEPT ![k] = IF do_update THEN "issued" ELSE "idle"]
            /\ handle' = [handle EXCEPT ![k] = IF do_update THEN Append(@, epoch) ELSE @]
            /\ UNCHANGED <<main, waitk, weight, uerr>>
  /\ UpdOnly

\* the apply channel performs the oldest apply in flight for updater k
Apply(k) ==
  /\ main # "aborted"
  /\ handle[k] # <<>>
  /\ weight' = [weight EXCEPT ![k] = Head(handle[k])]
  /\ handle' = [handle EXCEPT ![k] = Tail(@)]
  /\ UNCHANGED <<main, waitk, phase, uerr>>
  /\ UpdOnly

\* UpdateWait() is called: it returns at once when nothing is in flight, else it blocks
UpdateWait(k) ==
  /\ main = "run"
  /\ IF handle[k] = <<>>
       THEN /\ phase' = [phase EXCEPT ![k] = IF @ = "issued" THEN "idle" ELSE @]
            /\ UNCHANGED <<main, waitk>>
       ELSE /\ main' = "wait"
            /\ waitk' = k
            /\ UNCHANGED phase
  /\ UNCHANGED <<handle, weight, uerr>>
  /\ UpdOnly

\* an UpdateWait() that returns without looking at the channel
UpdateWaitReturn_NoJoin ==
  /\ main = "wait"
  /\ main' = "run"
  /\ phase' = [phase EXCEPT ![waitk] = "idle"]
  /\ UNCHANGED <<waitk, handle, weight, uerr>>
  /\ UpdOnly

\* the blocked UpdateWait() returns: the apply it waited for is finished
UpdateWaitReturn ==
  /\ main = "wait"
  /\ handle[waitk] = <<>>
  /\ main' = "run"
  /\ phase' = [phase EXCEPT ![waitk] = "idle"]
  /\ UNCHANGED <<waitk, handle, weight, uerr>>
  /\ UpdOnly

UpdNext ==
  \/ \E k \in Updaters, epoch \in Epochs : Update(k, epoch)
  \/ \E k \in Updaters, epoch \in Epochs, grad \in Grads : UpdateGrad(k, epoch, grad)
  \/ \E k \in Updaters : BeforeBackprop(k)
  \/ \E k \in Updaters, do_update \in BOOLEAN, epoch \in Epochs :
       AfterBackprop(k, do_update, epoch)
  \/ \E k \in Updaters : Apply(k)
  \/ \E k \in Updaters : UpdateWait(k)
  \/ UpdateWaitReturn

(***************************************************************************)
(* Pooling layer: PoolingLayer<red::maximum, kMaxPooling, xpu>             *)
(* A tensor is [shape |-> <<n, c, h, w>>, data |-> its elements row-major]. *)
(***************************************************************************)
\* the value of an int converted to index_t
ToIndex(v) == v % IndexMod

\* the rows of the two-dimensional view mshadow evaluates a tensor by, and its elements
Rows(shape) == shape[1] * shape[2] * shape[3]
Cells(shape) == Rows(shape) * shape[4]

\* element (i, j) of the two-dimensional view of tensor t
Eval(t, i, j) == t.data[i * t.shape[4] + j + 1]

\* row and column, in the two-dimensional view, of the n-th element of a tensor of
\* the given shape
RowOf(shape, n) == (n - 1) \div shape[4]
ColOf(shape, n) == (n - 1) % shape[4]

\* a tensor whose elements have not been written
NoData == <<>>
Alloc(shape) == [shape |-> shape, data |-> NoData]

\* mshadow::expr::pad(src, pad_y, pad_x): zeros around each image
pad(src, pad_y, pad_x) ==
  LET src_height == src.shape[3]
      src_width == src.shape[4]
      new_height == src_height + 2 * pad_y
      new_width == src_width + 2 * pad_x
      shape == <<src.shape[1], src.shape[2], new_height, new_width>>
  IN  [shape |-> shape,
       data |-> [n \in 1..Cells(shape) |->
                   LET i == RowOf(shape, n)
                       j == ColOf(shape, n)
                       y == i % new_height
                       c == i \div new_height
                   IN  IF y < pad_y \/ j < pad_x THEN 0
                       ELSE IF y - pad_y < src_height /\ j - pad_x < src_width
                         THEN Eval(src, c * src_height + (y - pad_y), j - pad_x)
                         ELSE 0]]

\* mshadow::expr::crop(src, cshape, start_height, start_width)
crop(src, cshape, start_height, start_width) ==
  LET src_height == src.shape[3]
      new_height == cshape[1]
      shape == <<src.shape[1], src.shape[2], cshape[1], cshape[2]>>
  IN  [shape |-> shape,
       data |-> [n \in 1..Cells(shape) |->
                   LET i == RowOf(shape, n)
                       j == ColOf(shape, n)
                   IN  Eval(src,
                            ((i \div new_height) * src_height) + (i % new_height)
                              + start_height,
                            j + start_width)]]

\* red::maximum: the initial value of the reduction, below every element
MinValue == 0 - 1000

\* red::maximum::Reduce over a set of values
MaxOf(S) == CHOOSE m \in S : \A v \in S : v <= m

\* red::maximum::PartialGrad(src, result)
PartialGrad(a, b) == IF a = b THEN 1 ELSE 0

\* mshadow::expr::pool<red::maximum>(src, pshape, ksize_y, ksize_x, kstride)
pool(src, pshape, ksize_y, ksize_x, kstride) ==
  LET src_height == src.shape[3]
      src_width == src.shape[4]
      new_height == pshape[1]
      shape == <<src.shape[1], src.shape[2], pshape[1], pshape[2]>>
  IN  [shape |-> shape,
       data |-> [n \in 1..Cells(shape) |->
                   LET i == RowOf(shape, n)
                       j == ColOf(shape, n)
                       py == i % new_height
                       y_start == py * kstride
                       y_end == Min(y_start + ksize_y, src_height)
                       x_start == j * kstride
                       x_end == Min(x_start + ksize_x, src_width)
                       c == i \div new_height
                   IN  MaxOf({MinValue} \cup
                             {Eval(src, c * src_height + y, x) :
                                y \in y_start..(y_end - 1), x \in x_start..(x_end - 1)})]]

RECURSIVE SumSeq(_)
SumSeq(s) == IF s = <<>> THEN 0 ELSE Head(s) + SumSeq(Tail(s))

\* mshadow::expr::unpool<red::maximum>(data_src, data_pooled, grad_pooled,
\*                                      ksize_y, ksize_x, kstride)
unpool(data_src, data_pooled, grad_pooled, ksize_y, ksize_x, kstride) ==
  LET sshape_y == data_src.shape[3]
      pshape_y == data_pooled.shape[3]
      pshape_x == data_pooled.shape[4]
  IN  [shape |-> data_src.shape,
       data |-> [n \in 1..Cells(data_src.shape) |->
                   LET i == RowOf(data_src.shape, n)
                       j == ColOf(data_src.shape, n)
                       y == i % sshape_y
                       c == i \div sshape_y
                       vsrc == Eval(data_src, i, j)
                       py_min == IF y < ksize_y THEN 0
                                 ELSE (y - ksize_y + kstride) \div kstride
                       px_min == IF j < ksize_x THEN 0
                                 ELSE (j - ksize_x + kstride) \div kstride
                       py_max == Min((y + kstride) \div kstride, pshape_y)
                       px_max == Min((j + kstride) \div kstride, pshape_x)
                       ny == IF py_max > py_min THEN py_max - py_min ELSE 0
                       nx == IF px_max > px_min THEN px_max - px_min ELSE 0
                   IN  SumSeq([k \in 1..(ny * nx) |->
                                 LET py == py_min + ((k - 1) \div nx)
                                     px == px_min + ((k - 1) % nx)
                                 IN  PartialGrad(vsrc,
                                                 Eval(data_pooled, c * pshape_y + py, px))
                                       * Eval(grad_pooled, c * pshape_y + py, px)])]]

\* LayerParam's defaults
LayerParam ==
  [kernel_height |-> 0, kernel_width |-> 0, stride |-> 1, pad_y |-> 0, pad_x |-> 0]

\* the values SetParam is called with, per parameter name
ParamVals ==
  [kernel_height |-> (0 - 1)..3, kernel_width |-> (0 - 1)..3,
   stride |-> 0..2, pad_y |-> 0..1, pad_x |-> 0..1]

\* the input node shapes the connection is initialised with
InShapes == {<<1, 1, 1, 3>>, <<1, 1, 2, 2>>, <<1, 2, 1, 2>>, <<1, 1, 28, 1>>}
\* the batch sizes the net changes to
BatchDims == {1, 2}
\* nodes_in.size(), nodes_out.size()
Arities == {<<1, 1>>, <<2, 1>>}

\* the input tensors: the values of a pattern of PatLen elements, repeated
PatLen == 3
PatVals == {0 - 1, 0, 1}
Patterns == [1..PatLen -> PatVals]
\* tensors of more than DataCells elements are only run on the pattern 0, 1, -1, ...
DataCells == 4
Ramp == [k \in 1..PatLen |-> ((k + 1) % 3) - 1]
InputsFor(shape) == IF Cells(shape) <= DataCells THEN Patterns ELSE {Ramp}
Fill(shape, pat) ==
  [shape |-> shape, data |-> [n \in 1..Cells(shape) |-> pat[((n - 1) % PatLen) + 1]]]

\* the upstream gradient the next layer leaves in nodes_out: powers of two, different
\* in any eight consecutive elements, so that the sum of the gradients of neighbouring
\* windows tells which windows it is the sum of
Upstream(shape) ==
  [shape |-> shape, data |-> [n \in 1..Cells(shape) |-> 2 ^ ((n - 1) % 8)]]

NoShape == <<0, 0, 0, 0>>

\* the layer after construction, its connection not yet initialised
PoolingLayer ==
  /\ lpc = "config"
  /\ param_ = LayerParam
  /\ in_shape_ = <<0, 0>>
  /\ arity = <<1, 1>>
  /\ nodes_in = Alloc(NoShape)
  /\ nodes_out = Alloc(NoShape)
  /\ states = <<>>
  /\ fin = Alloc(NoShape)

\* SetParam(name, val): param_.SetParam(name, val)
PoolSetParam ==
  /\ lpc = "config"
  /\ \E name \in DOMAIN ParamVals :
       \E val \in ParamVals[name] : param_' = [param_ EXCEPT ![name] = val]
  /\ UNCHANGED <<lpc, in_shape_, arity, nodes_in, nodes_out, states, fin>>
  /\ PoolOnly

\* an output dimension without the rounding up
OutDim_Floor(d, pad_d, ksize, kstride) ==
  (ToIndex(d + 2 * pad_d - ksize) \div kstride + 1) % IndexMod

\* an output dimension without the clamp
OutDim_NoClamp(d, pad_d, ksize, kstride) ==
  (ToIndex(d + 2 * pad_d - ksize + kstride - 1) \div kstride + 1) % IndexMod

\* one output dimension as InitNode computes it, in index_t arithmetic
OutDim(d, pad_d, ksize, kstride) ==
  (Min(ToIndex(d + 2 * pad_d - ksize + kstride - 1), ToIndex(d + 2 * pad_d - 1))
     \div kstride + 1) % IndexMod

\* the condition of the check "kernel size exceed input"
KernelFits(ksize_y, ksize_x, ishape) == ksize_x <= ishape[4] /\ ksize_y <= ishape[3]

\* InitNode(nodes_in, nodes_out, p_cstate) on an input node of shape ishape and a
\* connection of arity ar
InitNode(ishape, ar) ==
  LET ksize_y == ToIndex(param_.kernel_height)
      ksize_x == ToIndex(param_.kernel_width)
      kstride == ToIndex(param_.stride)
      oshape == <<ishape[1], ishape[2],
                  OutDim(ishape[3], param_.pad_y, ksize_y, kstride),
                  OutDim(ishape[4], param_.pad_x, ksize_x, kstride)>>
  IN  IF ar # <<1, 1>>
        THEN /\ lpc' = "ConfigError"
             /\ UNCHANGED <<in_shape_, nodes_out, states>>
        ELSE /\ in_shape_' = <<ishape[3], ishape[4]>>
             /\ IF ~(param_.kernel_height > 0 /\ param_.kernel_width > 0)
                  THEN /\ lpc' = "ConfigError"
                       /\ UNCHANGED <<nodes_out, states>>
                  ELSE IF ~KernelFits(ksize_y, ksize_x, ishape)
                    THEN /\ lpc' = "ConfigError"
                         /\ UNCHANGED <<nodes_out, states>>
                    ELSE IF kstride = 0
                      THEN \* integer division by zero: the process is killed
                           /\ lpc' = "crashed"
                           /\ UNCHANGED <<nodes_out, states>>
                      ELSE /\ lpc' = "ready"
                           /\ nodes_out' = Alloc(oshape)
                           /\ states' = <<Alloc(oshape), Alloc(ishape)>>

\* InitConnection(nodes_in, nodes_out, p_cstate); the caller has given the input node
\* its shape
InitConnection ==
  /\ lpc \in {"config", "ready"}
  /\ \E ishape \in InShapes, ar \in Arities :
       /\ arity' = ar
       /\ nodes_in' = Alloc(ishape)
       /\ InitNode(ishape, ar)
  /\ fin' = Alloc(NoShape)
  /\ UNCHANGED param_
  /\ PoolOnly

\* the shape the net gives a node when the batch size changes to nb
AdjustBatchSize(shape, nb) == <<nb, shape[2], shape[3], shape[4]>>

\* OnBatchSizeChanged(nodes_in, nodes_out, p_cstate) after the net has changed the batch
\* size of the nodes to nb
OnBatchSizeChanged ==
  /\ lpc \in {"ready", "forwarded", "backpropped", "skipped"}
  /\ \E nb \in BatchDims \ {nodes_in.shape[1]} :
       /\ nodes_in' = Alloc(AdjustBatchSize(nodes_in.shape, nb))
       /\ nodes_out' = Alloc(AdjustBatchSize(nodes_out.shape, nb))
  /\ states' = [states EXCEPT ![1] = Alloc(nodes_out'.shape)]
  /\ lpc' = "ready"
  /\ fin' = Alloc(NoShape)
  /\ UNCHANGED <<param_, in_shape_, arity>>
  /\ PoolOnly

\* Forward(is_train, nodes_in, nodes_out, p_cstate) on the input Fill(shape, pat);
\* tmp is states[0]
Forward ==
  /\ lpc \in {"ready", "backpropped", "skipped"}
  /\ \E pat \in InputsFor(nodes_in.shape) :
       LET input == Fill(nodes_in.shape, pat)
           pshape == <<nodes_out.shape[3], nodes_out.shape[4]>>
           tmp == pool(pad(input, param_.pad_y, param_.pad_x), pshape,
                       param_.kernel_height, param_.kernel_width, ToIndex(param_.stride))
       IN  /\ nodes_in' = input
           /\ fin' = input
           /\ states' = [states EXCEPT ![1].data = tmp.data]
           /\ nodes_out' = [nodes_out EXCEPT !.data = tmp.data]
  /\ lpc' = "forwarded"
  /\ UNCHANGED <<param_, in_shape_, arity>>
  /\ PoolOnly

\* an input gradient cropped at the corner of the padded tensor
InGrad_CropAtOrigin(grad) ==
  crop(unpool(pad(nodes_in, param_.pad_y, param_.pad_x),
              pad(states[1], 0, 0),
              pad(grad, 0, 0),
              param_.kernel_height, param_.kernel_width, ToIndex(param_.stride)),
       in_shape_, 0, 0)

\* the gradient Backprop writes into nodes_in; the assignment needs the expression to
\* have the shape of nodes_in[0]->data
InGrad(grad) ==
  crop(unpool(pad(nodes_in, param_.pad_y, param_.pad_x),
              pad(states[1], 0, 0),
              pad(grad, 0, 0),
              param_.kernel_height, param_.kernel_width, ToIndex(param_.stride)),
       in_shape_, param_.pad_y, param_.pad_x)

\* Backprop(prop_grad, nodes_in, nodes_out, p_cstate) after the next layer has left the
\* upstream gradient in nodes_out[0]->data
Backprop ==
  /\ lpc = "forwarded"
  /\ \E prop_grad \in BOOLEAN :
       LET grad == Upstream(nodes_out.shape)
       IN  /\ nodes_out' = grad
           /\ nodes_in' = IF prop_grad THEN InGrad(grad) ELSE nodes_in
           /\ lpc' = IF prop_grad THEN "backpropped" ELSE "skipped"
  /\ UNCHANGED <<param_, in_shape_, arity, states, fin>>
  /\ PoolOnly

PoolNext ==
  \/ PoolSetParam
  \/ InitConnection
  \/ OnBatchSizeChanged
  \/ Forward
  \/ Backprop

(***************************************************************************)
(* Specifications: one per component.                                      *)
(***************************************************************************)
\* the components a specification does not exercise: freshly constructed, never used
StoreIdle == StoreInit
IterIdle == MNISTIterator /\ batch_size_ = 0

KeyIdle == KeyInit

UpdIdle == IAsyncUpdater

PoolIdle == PoolingLayer

InitStore == StoreInit /\ IterIdle /\ KeyIdle /\ UpdIdle /\ PoolIdle
InitIter == MNISTIterator /\ StoreIdle /\ KeyIdle /\ UpdIdle /\ PoolIdle
InitKey == KeyInit /\ StoreIdle /\ IterIdle /\ UpdIdle /\ PoolIdle
InitUpd == IAsyncUpdater /\ StoreIdle /\ IterIdle /\ KeyIdle /\ PoolIdle
InitPool == PoolingLayer /\ StoreIdle /\ IterIdle /\ KeyIdle /\ UpdIdle

SpecStore == InitStore /\ [][StoreNext]_vars

SpecIter == InitIter /\ [][IterNext]_vars

SpecKey == InitKey /\ [][KeyNext]_vars

SpecUpd == InitUpd /\ [][UpdNext]_vars

SpecPool == InitPool /\ [][PoolNext]_vars

(***************************************************************************)
(* Claims about the instance store (checked under SpecStore).              *)
(***************************************************************************)
TV_Inv(tv) ==
  /\ Len(tv.offset_) = TV_Size(tv) + 1
  /\ tv.offset_[1] = 0
  /\ \A i \in 1..TV_Size(tv) :
       tv.offset_[i + 1] - tv.offset_[i] = ShapeSize(tv.shape_[i])
  /\ Len(tv.content_) = Last(tv.offset_)

\* C1: after any sequence of Push and Clear calls the offset table of a TensorVector
\* has Size()+1 entries, starts at 0, grows by shape[i].Size() per instance, and the
\* backing buffer holds exactly offset[Size()] elements.
C1_OffsetTable == TV_Inv(data_) /\ TV_Inv(label_)

C1_Witness ==
  /\ cleared
  /\ data_.offset_ = <<0, 2, 3>>
  /\ label_.offset_ = <<0, 1, 3>>

TV_Disjoint(tv) ==
  \A i, j \in 0..(TV_Size(tv) - 1) :
    i < j => tv.offset_[i + 2] <= tv.offset_[j + 1]

\* C2: the element ranges [offset[i], offset[i+1]) of distinct instances are pairwise
\* disjoint, and the view of every instance i reads back exactly what was written
\* through it, whatever was pushed later or written through the other views.
C2_ViewsKeepTheirData ==
  /\ TV_Disjoint(data_)
  /\ TV_Disjoint(label_)
  /\ Len(shadow) = TV_Size(data_)
  /\ \A i \in 0..(TV_Size(data_) - 1) : ViewOf(data_, i) = shadow[i + 1]

C2_Witness ==
  /\ TV_Size(data_) = 2
  /\ ViewOf(data_, 0) = <<0, 1>>
  /\ ViewOf(data_, 1) = <<1>>

\* the access named in acc was made with an index that is not < Size(), or by Back()
\* on an empty store
InvalidAccess ==
  \/ acc.op = "TV_At" /\ ~(acc.i < TV_Size(data_))
  \/ acc.op = "IV_At" /\ ~(acc.i < IV_Size)
  \/ acc.op = "TV_Back" /\ TV_Size(data_) = 0
  \/ acc.op = "IV_Back" /\ IV_Size = 0

\* C3: operator[](i) with i not < Size() (the largest size_t value included) and Back()
\* on an empty store fail with OutOfRange; no view is returned and no element of the
\* tables is read outside their bounds.
C3_InvalidAccessFails ==
  InvalidAccess => acc.kind = "OutOfRange" /\ ~acc.oob

RECURSIVE Replay(_)
\* the store a freshly constructed InstVector holds after the Push calls ps
Replay(ps) ==
  IF ps = <<>> THEN IV_New
  ELSE LET p == Last(ps)
       IN IV_Push(Replay(SubSeq(ps, 1, Len(ps) - 1)), p[1], p[2], p[3])

\* the part of a store the claim compares: indices, offsets and shapes
Tables(iv) ==
  <<iv.index_, iv.data_.offset_, iv.data_.shape_, iv.label_.offset_, iv.label_.shape_>>

\* C4: once Clear() has been called, the store holds exactly what a freshly
\* constructed store holds after the Push calls made since the last Clear(): right
\* after Clear() that is zero instances in the index, data and label tables and the
\* offset tables <<0>>.
C4_ClearResets ==
  cleared =>
    /\ Tables(IV_This) = Tables(Replay(pushed))
    /\ pushed = <<>> =>
         /\ IV_Size = 0 /\ TV_Size(data_) = 0 /\ TV_Size(label_) = 0
         /\ data_.offset_ = <<0>> /\ label_.offset_ = <<0>>

C4_Witness ==
  /\ cleared
  /\ Len(pushed) = 2
  /\ data_.offset_ = <<0, 0, 2>>

(***************************************************************************)
(* Claims about the batch source (checked under SpecIter).                 *)
(***************************************************************************)
\* C5: with batch_size B >= 1 over N loaded images, in an epoch begun by BeforeFirst()
\* exactly N \div B Next() calls return true, the k-th (from 0) pointing the data,
\* label and identity views at position k*B with extent B and moving the cursor to
\* (k+1)*B; Next() returns false only after them, so a trailing partial batch is never
\* returned.
C5_FullBatchesOnly ==
  (pc = "ready" /\ nth # NoEpoch /\ batch_size_ >= 1) =>
    /\ nth <= Len(img_) \div batch_size_
    /\ loc_ = nth * batch_size_
    /\ ret = "true" =>
         /\ nth >= 1
         /\ out_ = [data |-> (nth - 1) * batch_size_, label |-> (nth - 1) * batch_size_,
                    inst_index |-> (nth - 1) * batch_size_, batch_size |-> batch_size_]
    /\ ret = "false" => nth = Len(img_) \div batch_size_

C5_Witness ==
  /\ pc = "ready" /\ batch_size_ = 2 /\ Len(img_) = 5 /\ Len(labels_) = 5
  /\ nth = 2 /\ ret = "false" /\ loc_ = 4 /\ out_.data = 2

\* C6: BeforeFirst() sets the cursor to 0 and leaves the images, labels, identities,
\* configuration and output view alone; the first Next() of every epoch hands out
\* what the first Next() of the first epoch handed out (same positions, data, labels
\* and identities, or the same end-of-epoch signal).
C6_SameFirstBatch ==
  /\ [](first # NoResult /\ ((ret = "true" /\ nth = 1) \/ (ret = "false" /\ nth = 0))
          => Result(ret, out_) = first)
  /\ [][BeforeFirst =>
          /\ loc_' = 0
          /\ UNCHANGED <<img_, labels_, inst_, batch_size_, shuffle_, inst_offset_, out_>>]_vars

C6_Witness ==
  /\ restarted /\ shuffle_ = 1 /\ batch_size_ = 2
  /\ ret = "true" /\ nth = 1
  /\ first.ret = "true" /\ first.batch.ids = <<2, 0>> /\ first.batch.data = <<2, 0>>

\* C7: every epoch is finite, for every batch_size and instance count: in an epoch
\* begun by BeforeFirst() each Next() that returns true moves the cursor strictly
\* forward and never past the instance count (so only finitely many return true), a
\* Next() that returns false leaves the cursor and the output view unchanged, and
\* after a false every Next() returns false until BeforeFirst().
C7_EpochsEnd ==
  [][(Next /\ nth # NoEpoch) =>
       /\ ret' = "true" => (loc_ < loc_' /\ loc_' <= Len(img_))
       /\ ret' = "false" => UNCHANGED <<loc_, out_>>
       /\ ret = "false" => ret' = "false"]_vars

\* the identities LoadLabel assigns to labels_count instances
LoadedIds == {(inst_offset_ + i) % IndexMod : i \in 0..(Len(labels_) - 1)}

\* C8: after Init with shuffle enabled the identity array is a permutation of the
\* identities offset .. offset+N-1 assigned at load time: none lost, none duplicated,
\* the instance count unchanged.
C8_ShufflePermutes ==
  (pc = "ready" /\ shuffle_ # 0) =>
    /\ Len(inst_) = Len(labels_)
    /\ {inst_[i] : i \in 1..Len(inst_)} = LoadedIds
    /\ \A i, j \in 1..Len(inst_) : inst_[i] = inst_[j] => i = j

C8_Witness ==
  /\ pc = "ready" /\ shuffle_ = 1 /\ inst_offset_ = IndexMod - 1
  /\ inst_ = <<1, IndexMod - 1, 2, 0>>
  /\ labels_ = <<2, 0, 3, 1>> /\ img_ = <<2, 0, 3, 1>>

(***************************************************************************)
(* Claims about the parameter key encoder (checked under SpecKey).         *)
(***************************************************************************)
\* the call c encoded a weight: a layer index >= 0 with tag "wmat" or "bias"
WeightCall(c) == c.tag \in {"wmat", "bias"} /\ c.layer_index >= 0

\* C9: for every layer_index >= 0 that is an int, the key EncodeDataKey returns for
\* tag "wmat" or "bias" is mapped back to that tag by DecodeTag; DecodeTag of any key
\* with key mod 4 in {2, 3} fails with the invalid-key error.
C9_RoundTrip ==
  /\ (WeightCall(enc) /\ enc.status = "ok" /\ dec # NoDec /\ dec.key = enc.key)
       => dec.tag = enc.tag
  /\ (dec # NoDec /\ dec.key % kDataKeyStep \in {2, 3}) => dec.tag = "Error"

\* C10: two EncodeDataKey calls with layer_index >= 0 and tag "wmat" or "bias" that
\* differ in layer index or in tag never yield the same key.
C10_Injective ==
  ( /\ WeightCall(prev) /\ WeightCall(enc)
    /\ <<prev.layer_index, prev.tag>> # <<enc.layer_index, enc.tag>>
    /\ prev.status = "ok" /\ enc.status = "ok" )
  => prev.key # enc.key


(***************************************************************************)
(* Claims about the asynchronous updater (checked under SpecUpd).          *)
(***************************************************************************)
\* C11: Update(epoch) and Update(epoch, grad) of an asynchronous updater end in the
\* fatal usage error in every state and for every epoch, and apply no optimizer step:
\* the weight and the applies in flight are as before the call.
C11_SyncUpdateFails ==
  [][((\E k \in Updaters, epoch \in Epochs : Update(k, epoch))
      \/ (\E k \in Updaters, epoch \in Epochs, grad \in Grads : UpdateGrad(k, epoch, grad)))
     => /\ main' = "aborted"
        /\ uerr'.outcome = "UsageError"
        /\ uerr'.op \in {"Update", "UpdateGrad"}
        /\ weight' = weight
        /\ handle' = handle]_vars

\* a synchronous overload was called while an apply was in flight
C11_Witness ==
  /\ main = "aborted"
  /\ uerr.op \in {"Update", "UpdateGrad"}
  /\ handle[uerr.k] # <<>>

\* C12: after BeforeBackprop / AfterBackprop followed by UpdateWait() no update of that
\* updater is in flight; UpdateWait() returns only when no apply of its updater is in
\* flight; an UpdateWait() with no update outstanding changes nothing.
C12_WaitLeavesNothingInFlight ==
  /\ [](\A k \in Updaters : phase[k] = "idle" => handle[k] = <<>>)
  /\ [][\A k \in Updaters :
          /\ ((UpdateWait(k) /\ main' = "run") \/ (UpdateWaitReturn /\ waitk = k))
               => (handle[k] = <<>> /\ handle'[k] = <<>>)
          /\ (UpdateWait(k) /\ phase[k] # "issued") => UNCHANGED vars]_vars

\* UpdateWait() of updater 1 blocked and returned after the apply of epoch 1
C12_Witness ==
  /\ main = "run"
  /\ waitk = 1
  /\ phase[1] = "idle"
  /\ weight[1] = 1
  /\ handle[1] = <<>>

\* C13: no updater has more than one apply in flight; an AfterBackprop called again
\* before UpdateWait() ends in the usage error and starts no apply.
C13_OneInFlight ==
  /\ [](\A k \in Updaters : Len(handle[k]) <= 1)
  /\ [][\A k \in Updaters, do_update \in BOOLEAN, epoch \in Epochs :
          (AfterBackprop(k, do_update, epoch) /\ phase[k] = "issued")
            => /\ main' = "aborted"
               /\ uerr' = [op |-> "AfterBackprop", k |-> k, outcome |-> "UsageError"]
               /\ handle' = handle]_vars

\* the second AfterBackprop was rejected while the first apply was still in flight
C13_Witness ==
  /\ uerr.op = "AfterBackprop"
  /\ Len(handle[uerr.k]) = 1


(***************************************************************************)
(* Claims about the pooling layer (checked under SpecPool).                *)
(***************************************************************************)
\* InitConnection has completed on the connection
Accepted == lpc \in {"ready", "forwarded", "backpropped", "skipped"}

\* the output dimension of the shape inference rule, in the integers
SpecDim(d, pad_d, k, s) == Min(d + 2 * pad_d - k + s - 1, d + 2 * pad_d - 1) \div s + 1

\* C14: once InitConnection has completed, the output node has the batch and channel of
\* the input node, outH = min(H + 2*py - kh + s - 1, H + 2*py - 1) / s + 1 and
\* outW = min(W + 2*px - kw + s - 1, W + 2*px - 1) / s + 1 in integer division;
\* H = 28, kh = 2, s = 2, py = 0 gives 14 and H = 28, kh = 3, s = 2, py = 1 gives 15.
C14_OutputShape ==
  Accepted =>
    /\ nodes_out.shape =
         <<nodes_in.shape[1], nodes_in.shape[2],
           SpecDim(nodes_in.shape[3], param_.pad_y, param_.kernel_height, param_.stride),
           SpecDim(nodes_in.shape[4], param_.pad_x, param_.kernel_width, param_.stride)>>
    /\ (nodes_in.shape[3] = 28 /\ param_.kernel_height = 2 /\ param_.stride = 2
          /\ param_.pad_y = 0) => nodes_out.shape[3] = 14
    /\ (nodes_in.shape[3] = 28 /\ param_.kernel_height = 3 /\ param_.stride = 2
          /\ param_.pad_y = 1) => nodes_out.shape[3] = 15

\* the second example: H = 28, kh = 3, s = 2, py = 1
C14_Witness ==
  /\ lpc = "ready"
  /\ nodes_in.shape[3] = 28
  /\ param_.kernel_height = 3
  /\ param_.stride = 2
  /\ param_.pad_y = 1
  /\ nodes_out.shape[3] = 15

\* C15: on a 1-1 connection InitConnection ends in the ConfigError exactly when a
\* kernel side is <= 0 or exceeds the padded input (kh > H + 2*py or kw > W + 2*px);
\* every other configuration raises no ConfigError.
C15_KernelWithinPaddedInput ==
  (lpc # "config" /\ arity = <<1, 1>>) =>
    (lpc = "ConfigError"
       <=> \/ param_.kernel_height <= 0
           \/ param_.kernel_width <= 0
           \/ param_.kernel_height > nodes_in.shape[3] + 2 * param_.pad_y
           \/ param_.kernel_width > nodes_in.shape[4] + 2 * param_.pad_x)

\* C17: for every accepted configuration with stride >= 1 the last output cell's
\* window starts inside the padded input: (outH - 1) * s <= H + 2*py - 1 and
\* (outW - 1) * s <= W + 2*px - 1.
C17_WindowsStartInside ==
  (Accepted /\ param_.stride >= 1) =>
    /\ (nodes_out.shape[3] - 1) * param_.stride <= nodes_in.shape[3] + 2 * param_.pad_y - 1
    /\ (nodes_out.shape[4] - 1) * param_.stride <= nodes_in.shape[4] + 2 * param_.pad_x - 1

\* the stride exceeds the kernel and the clamp decides: H = 2, kh = 1, s = 2, py = 0
C17_Witness ==
  /\ lpc = "ready"
  /\ nodes_in.shape[3] = 2
  /\ param_.kernel_height = 1
  /\ param_.stride = 2
  /\ param_.pad_y = 0
  /\ nodes_out.shape[3] = 1

\* C18: whenever the connection is initialised, also after batch size changes and
\* between Forward and Backprop calls, state slot 0 has the shape of the output node
\* and state slot 1 the shape of the input node.
C18_ScratchShapes ==
  Accepted =>
    /\ Len(states) = 2
    /\ states[1].shape = nodes_out.shape
    /\ states[2].shape = nodes_in.shape


\* element (Y, X) of image m of the zero-padded forward input
PaddedAt(m, Y, X) ==
  LET y == Y - param_.pad_y
      x == X - param_.pad_x
  IN  IF 0 <= y /\ y < fin.shape[3] /\ 0 <= x /\ x < fin.shape[4]
        THEN Eval(fin, m * fin.shape[3] + y, x)
        ELSE 0

\* coordinate Z of the padded input (of extent limit) lies in the window of output
\* coordinate o for kernel side k
InWindow(o, Z, k, limit) ==
  o * param_.stride <= Z /\ Z < Min(o * param_.stride + k, limit)

\* the maximum over the window of output cell (oy, ox) of image m
WindowMax(m, oy, ox) ==
  LET PH == fin.shape[3] + 2 * param_.pad_y
      PW == fin.shape[4] + 2 * param_.pad_x
  IN  MaxOf({PaddedAt(m, Y, X) :
               Y \in {Z \in 0..(PH - 1) : InWindow(oy, Z, param_.kernel_height, PH)},
               X \in {Z \in 0..(PW - 1) : InWindow(ox, Z, param_.kernel_width, PW)}})

\* the upstream gradients of the windows that hold input element (y, x) of image m and
\* whose maximum is the value of that element, added up
Routed(m, y, x) ==
  LET PH == fin.shape[3] + 2 * param_.pad_y
      PW == fin.shape[4] + 2 * param_.pad_x
      outH == nodes_out.shape[3]
      outW == nodes_out.shape[4]
  IN  SumSeq([n \in 1..(outH * outW) |->
                LET oy == (n - 1) \div outW
                    ox == (n - 1) % outW
                IN  IF /\ InWindow(oy, y + param_.pad_y, param_.kernel_height, PH)
                       /\ InWindow(ox, x + param_.pad_x, param_.kernel_width, PW)
                       /\ Eval(fin, m * fin.shape[3] + y, x) = WindowMax(m, oy, ox)
                      THEN Eval(nodes_out, m * outH + oy, ox)
                      ELSE 0])

C16_ShortReadFails ==
  (files.img_short \/ files.label_short) => pc = "failed"

\* the image file was whole, the label file ended early, Init failed
C16_Witness ==
  /\ pc = "failed"
  /\ ~files.img_short
  /\ files.label_short

\* C20: after Init, with or without shuffle, position i holds the instance of dataset
\* position r = inst_[i] - inst_offset_: the label at i is the label read at r, and
\* the image at i is the image read at r (for every r the image file has an image at).
C20_AlignedWithIdentity ==
  pc = "ready" =>
    \A i \in 1..Len(inst_) :
      LET r == Ridx(inst_, i, inst_offset_)
      IN  /\ i <= Len(labels_) => labels_[i] = r
          /\ (i <= Len(img_) /\ r < Len(img_)) => img_[i] = r

\* three instances, shuffled out of order, with the offset that wraps the identity
C20_Witness ==
  /\ pc = "ready"
  /\ shuffle_ = 1
  /\ inst_offset_ = IndexMod - 1
  /\ inst_ = <<1, IndexMod - 1, 0>>
  /\ img_ = <<2, 0, 1>>
  /\ labels_ = <<2, 0, 1>>

\* Next points the three views of out_ at position pos and the batch has n instances:
\* the positions pos .. pos+n-1 are elements of arr
Backed(arr, pos, n) == pos + n <= Len(arr)

\* C21: for every pair of image and label files Init accepts, and after every sequence
\* of BeforeFirst() and Next() calls, a batch for which Next() returned true is backed
\* by loaded data: its positions loc .. loc+batch_size-1 lie within the image array,
\* within the label array and within the identity array.
C21_BatchesBacked ==
  (pc = "ready" /\ ret = "true") =>
    /\ Backed(img_, out_.data, out_.batch_size)
    /\ Backed(labels_, out_.label, out_.batch_size)
    /\ Backed(inst_, out_.inst_index, out_.batch_size)

\* C22: a Next() issued after Init with no BeforeFirst() before it does what the first
\* Next() after BeforeFirst() does: it returns true with the views at position 0 and
\* the cursor moved to batch_size when the first batch exists, and false otherwise.
C22_NextAfterInitIsFirstBatch ==
  [][(Next /\ loc_ = Uninit) =>
       IF HasBatch(0)
         THEN /\ ret' = "true"
              /\ out_' = [data |-> 0, label |-> 0, inst_index |-> 0,
                          batch_size |-> batch_size_]
              /\ loc_' = batch_size_
         ELSE /\ ret' = "false"
              /\ UNCHANGED <<out_, loc_>>]_vars

====
